---- MODULE Spec2Model ----
(***************************************************************************)
(* Model of robo/models/bnn.py: class SGLDNet.                             *)
(*                                                                         *)
(* The model keeps the bookkeeping of the class exactly (hyperparameters,  *)
(* the bounded deque of weight snapshots, the normalisation statistics,    *)
(* is_trained, the loop counter and the mini-batch slices) and treats the  *)
(* numerics of the collaborators as opaque values:                         *)
(*   - a weight vector is the record [call |-> c, iter |-> k]: the live    *)
(*     network's weights after sampler step k of the c-th train() call     *)
(*     (iter = -1: the freshly initialised network of that call);          *)
(*   - a data set is identified by its row count N, and the statistics     *)
(*     computed from it by the same number (0 stands for None);            *)
(*   - a forward evaluation is the record of what went into it.            *)
(* train() is split at its loop: TrainBegin (lines 105-143), one TrainStep *)
(* per loop iteration (144-164), TrainEnd (loop exit and line 165).  The   *)
(* class is single threaded, so no other call runs while pc = "loop".      *)
(*                                                                         *)
(* History variables, not fields of the class: cfg_bsize (the bsize the    *)
(* constructor was given), n_train (train() calls started), steps (sampler *)
(* steps of the current call), appended (what was appended to the deque    *)
(* since it was last cleared), op and result (the last call and how it     *)
(* ended: a returned value or a raised exception).                         *)
(***************************************************************************)
EXTENDS Integers, Sequences, FiniteSets, TLC

\* ---- program constants ----
ThinEvery == 200

\* ---- bounds of the model ----
MaxNets == 5
MaxIters == 2000
MaxBurnIn == 401
MaxBsize == 3
MaxRows == 3
MaxTrains == 2
MaxXTest == 1
MaxFuncs == 3
MaxExtra == 2

VARIABLES
  n_nets, n_iters, burn_in, bsize, normalize_input, normalize_output,
  is_trained, samples, net, X, Y, x_mean, x_std, y_mean, y_std,
  pc, i, xmb, ymb,
  cfg_bsize, n_train, steps, appended, op, result

hyper == <<n_nets, n_iters, burn_in, normalize_input, normalize_output, cfg_bsize>>
stats == <<x_mean, x_std, y_mean, y_std>>
data == <<X, Y>>
loopv == <<i, xmb, ymb, steps>>
vars == <<n_nets, n_iters, burn_in, bsize, normalize_input, normalize_output,
          is_trained, samples, net, X, Y, x_mean, x_std, y_mean, y_std,
          pc, i, xmb, ymb, cfg_bsize, n_train, steps, appended, op, result>>

Min(a, b) == IF a < b THEN a ELSE b

\* ---- opaque values ----
NoNet == [call |-> 0, iter |-> 0 - 1]
FreshNet(c) == [call |-> c, iter |-> 0 - 1]
ParamsAfterStep(c, k) == [call |-> c, iter |-> k]
NoBatch == [lo |-> 0, hi |-> 0]
NoOp == [name |-> "new", x |-> 0, n_funcs |-> 0]
ReturnNone == [kind |-> "return", what |-> "None", rows |-> <<>>, denorm |-> 0]
Raise(e) == [kind |-> "raise", what |-> e, rows |-> <<>>, denorm |-> 0]
Pending == [kind |-> "running", what |-> "", rows |-> <<>>, denorm |-> 0]

\* ---- collections.deque(maxlen=n) ----
dequeAppend_noevict(d, x, maxlen) == Append(d, x)
dequeAppend(d, x, maxlen) ==
  IF maxlen = 0 THEN d
  ELSE IF Len(d) = maxlen THEN Append(Tail(d), x)
  ELSE Append(d, x)

\* ---- the hyperparameters a model is constructed with ----
\* Runs of MaxIters iterations are explored with one batch size and both
\* normalisations on; short runs vary every hyperparameter.
LongConfigs ==
  [n_nets : 0..MaxNets, n_iters : {MaxIters}, burn_in : {0, MaxBurnIn},
   bsize : {2}, normalize_input : {TRUE}, normalize_output : {TRUE}]
ShortConfigs ==
  [n_nets : 0..2, n_iters : {0, 1, ThinEvery + 1}, burn_in : {0, 1, ThinEvery},
   bsize : 1..MaxBsize, normalize_input : BOOLEAN, normalize_output : BOOLEAN]
Configs == LongConfigs \cup ShortConfigs

Init ==
  /\ \E c \in Configs :
       /\ n_nets = c.n_nets
       /\ n_iters = c.n_iters
       /\ burn_in = c.burn_in
       /\ bsize = c.bsize
       /\ cfg_bsize = c.bsize
       /\ normalize_input = c.normalize_input
       /\ normalize_output = c.normalize_output
  /\ is_trained = FALSE
  /\ samples = <<>>
  /\ net = NoNet
  /\ X = 0 /\ Y = 0
  /\ x_mean = 0 /\ x_std = 0 /\ y_mean = 0 /\ y_std = 0
  /\ pc = "idle"
  /\ i = 0 /\ xmb = NoBatch /\ ymb = NoBatch
  /\ n_train = 0 /\ steps = 0 /\ appended = <<>>
  /\ op = NoOp /\ result = Pending

\* ---- train(X, Y) ----
\* Lines 138-139: the batch size the loop runs with, written back to self.bsize.
EffectiveBsize(b, rows) == IF rows < b THEN rows ELSE b

TrainBegin ==
  /\ pc = "idle"
  /\ n_train < MaxTrains
  /\ \E rows \in 1..MaxRows :
       /\ X' = rows /\ Y' = rows
       /\ IF normalize_input
            THEN x_mean' = rows /\ x_std' = rows
            ELSE UNCHANGED <<x_mean, x_std>>
       /\ IF normalize_output
            THEN y_mean' = rows /\ y_std' = rows
            ELSE UNCHANGED <<y_mean, y_std>>
       /\ bsize' = EffectiveBsize(bsize, rows)
  /\ n_train' = n_train + 1
  /\ net' = FreshNet(n_train + 1)
  /\ samples' = <<>>
  /\ appended' = <<>>
  /\ i' = 0 /\ steps' = 0
  /\ xmb' = NoBatch /\ ymb' = NoBatch
  /\ pc' = "loop"
  /\ op' = [name |-> "train", x |-> 0, n_funcs |-> 0]
  /\ result' = Pending
  /\ UNCHANGED <<hyper, is_trained>>

\* Line 144: the loop condition, on the counter and the buffer length.
LoopCond_noFull(k, len) == k < n_iters
LoopCond_offByOne(k, len) == k <= n_iters /\ len < n_nets
LoopCond(k, len) == k < n_iters /\ len < n_nets

\* Line 161: is a snapshot taken at iteration k.
Collect(k) == k % ThinEvery = 0 /\ k >= burn_in

\* Line 145.
BatchStart(k, b, rows) == (k * b) % rows

\* Lines 147-148: the rows a[lo:hi] of an array of `rows` rows, 0 <= lo <= hi,
\* as the half-open range [lo, hi).

Slice_wrap(lo, hi, rows) == [lo |-> lo, hi |-> hi]
Slice(lo, hi, rows) == [lo |-> Min(lo, rows), hi |-> Min(hi, rows)]

TrainStep ==
  /\ pc = "loop"
  /\ LoopCond(i, Len(samples))
  /\ LET start == BatchStart(i, bsize, X)
         after == ParamsAfterStep(n_train, i)
     IN /\ xmb' = Slice(start, start + bsize, X)
        /\ ymb' = Slice(start, start + bsize, Y)
        /\ net' = after
        /\ steps' = steps + 1
        /\ IF Collect(i)
             THEN /\ samples' = dequeAppend(samples, after, n_nets)
                  /\ appended' = Append(appended, after)
             ELSE UNCHANGED <<samples, appended>>
  /\ i' = i + 1
  /\ UNCHANGED <<hyper, bsize, is_trained, data, stats, pc, n_train, op, result>>

TrainEnd ==
  /\ pc = "loop"
  /\ ~LoopCond(i, Len(samples))
  /\ is_trained' = TRUE
  /\ pc' = "idle"
  /\ result' = ReturnNone
  /\ UNCHANGED <<hyper, bsize, samples, net, data, stats, loopv, n_train, appended, op>>

\* ---- normalize_inputs(X_test, self.x_mean, self.x_std) ----
\* The statistics used on a test input: the stored ones; when they are None the
\* function computes them from the test input itself (written 0 - xt).
TestStats(xt) ==
  IF ~normalize_input THEN 0
  ELSE IF x_mean = 0 THEN 0 - xt
  ELSE x_mean

\* single_predict on the live network loaded with params, then the
\* denormalisation applied to that output (ynorm = 0: none).
Forward(params, xt, xnorm, ynorm) ==
  [params |-> params, x |-> xt, xnorm |-> xnorm, ynorm |-> ynorm]

\* ---- predict(X_test) ----
predict_draining ==
  /\ pc = "idle"
  /\ \E xt \in 1..MaxXTest :
       /\ op' = [name |-> "predict", x |-> xt, n_funcs |-> 0]
       /\ IF ~is_trained
            THEN /\ result' = ReturnNone
                 /\ UNCHANGED <<net, samples>>
            ELSE /\ result' =
                      IF samples = <<>> THEN Raise("IndexError")
                      ELSE [kind |-> "return", what |-> "mean_var",
                            rows |-> [k \in 1..Len(samples) |->
                                        Forward(samples[k], xt, TestStats(xt), 0)],
                            denorm |-> IF normalize_output THEN y_mean ELSE 0]
                 /\ net' = IF samples = <<>> THEN net ELSE samples[Len(samples)]
                 /\ samples' = <<>>
  /\ UNCHANGED <<hyper, bsize, is_trained, data, stats, pc, loopv, n_train, appended>>

predict ==
  /\ pc = "idle"
  /\ \E xt \in 1..MaxXTest :
       /\ op' = [name |-> "predict", x |-> xt, n_funcs |-> 0]
       /\ IF ~is_trained
            THEN /\ result' = ReturnNone
                 /\ net' = net
            ELSE /\ result' =
                      IF samples = <<>> THEN Raise("IndexError")
                      ELSE [kind |-> "return", what |-> "mean_var",
                            rows |-> [k \in 1..Len(samples) |->
                                        Forward(samples[k], xt, TestStats(xt), 0)],
                            denorm |-> IF normalize_output THEN y_mean ELSE 0]
                 /\ net' = IF samples = <<>> THEN net ELSE samples[Len(samples)]
  /\ UNCHANGED <<hyper, bsize, is_trained, samples, data, stats, pc, loopv,
                 n_train, appended>>

\* ---- sample_functions(X_test, n_funcs) ----
\* self.samples[k] for a k the caller has checked to be in range (0-based).
SampleAt_newestFirst(d, k) == d[Len(d) - k]
SampleAt(d, k) == d[k + 1]

sample_functions ==
  /\ pc = "idle"
  /\ \E xt \in 1..MaxXTest, n_funcs \in 0..MaxFuncs :
       LET done == Min(n_funcs, Len(samples))
           ynorm == IF normalize_output THEN y_mean ELSE 0
       IN /\ op' = [name |-> "sample_functions", x |-> xt, n_funcs |-> n_funcs]
          /\ IF n_funcs = 0
               THEN /\ result' = [kind |-> "return", what |-> "array",
                                  rows |-> <<>>, denorm |-> 0]
                    /\ net' = net
               ELSE IF net = NoNet
               THEN /\ result' = Raise("AttributeError")
                    /\ net' = net
               ELSE /\ result' =
                         IF n_funcs > Len(samples) THEN Raise("IndexError")
                         ELSE [kind |-> "return", what |-> "array",
                               rows |-> [k \in 1..n_funcs |->
                                           Forward(SampleAt(samples, k - 1), xt,
                                                   TestStats(xt), ynorm)],
                               denorm |-> 0]
                    /\ net' = IF done = 0 THEN net ELSE SampleAt(samples, done - 1)
  /\ UNCHANGED <<hyper, bsize, is_trained, samples, data, stats, pc, loopv,
                 n_train, appended>>

\* ---- self.samples.append(x) by a user of the buffer ----
\* Exercises the deque beyond what train() does to it: train() stops at
\* len(samples) = n_nets and so never makes the deque evict.
BufferAppend ==
  /\ pc = "idle"
  /\ Len(appended) < n_nets + MaxExtra
  /\ LET x == ParamsAfterStep(0, Len(appended))
     IN /\ samples' = dequeAppend(samples, x, n_nets)
        /\ appended' = Append(appended, x)
  /\ op' = [name |-> "append", x |-> 0, n_funcs |-> 0]
  /\ result' = ReturnNone
  /\ UNCHANGED <<hyper, bsize, is_trained, net, data, stats, pc, loopv, n_train>>

Next == TrainBegin \/ TrainStep \/ TrainEnd \/ predict \/ sample_functions

Spec == Init /\ [][Next]_vars

NextBuffer == Next \/ BufferAppend

SpecBuffer == Init /\ [][NextBuffer]_vars

\* train() runs to completion once called: its loop keeps stepping and then returns.
FairSpec == Spec /\ WF_vars(TrainStep) /\ WF_vars(TrainEnd)

\* ======================= properties =======================

\* A train() call has returned and no other train() call is running.
Returned == pc = "idle" /\ n_train > 0

\* The iterations at which a snapshot is due: 0 <= k < n_iters, k a multiple of
\* ThinEvery, k >= burn_in.
DueIters ==
  {k \in {ThinEvery * m : m \in 0..(n_iters \div ThinEvery)} :
     k < n_iters /\ k >= burn_in}
\* The j-th smallest due iteration.
DueAt(j) == CHOOSE k \in DueIters : Cardinality({h \in DueIters : h < k}) = j - 1
LastN(s, n) == SubSeq(s, Len(s) - n + 1, Len(s))

\* C1: when train() returns, the buffer holds exactly the snapshots of the first
\* min(n_nets, K) due iterations in increasing order, and no sampler step ran
\* after the iteration that filled the buffer; n_iters = 2000, burn_in = 0,
\* n_nets = 5 gives the snapshots of iterations 0, 200, 400, 600, 800.
C1_FirstDueSnapshots ==
  Returned =>
    /\ Len(samples) = Min(n_nets, Cardinality(DueIters))
    /\ \A j \in 1..Len(samples) : samples[j] = ParamsAfterStep(n_train, DueAt(j))
    /\ (n_nets = 0) => steps = 0
    /\ (n_nets > 0 /\ Len(samples) = n_nets) => steps = samples[n_nets].iter + 1
    /\ (n_iters = 2000 /\ burn_in = 0 /\ n_nets = 5) =>
         [j \in 1..Len(samples) |-> samples[j].iter] = <<0, 200, 400, 600, 800>>

C1_Witness ==
  /\ Returned
  /\ n_iters = 2000 /\ burn_in = 0 /\ n_nets = 5
  /\ Len(samples) = 5 /\ steps = 801

\* C2: train() takes at most n_iters sampler steps and returns with is_trained
\* set, len(buffer) <= n_nets and, when burn_in <= n_iters,
\* len(buffer) <= (n_iters - burn_in) div 200 + 1; the loop steps only while
\* i < n_iters and the buffer is not full, and leaves exactly when i = n_iters
\* or len(buffer) = n_nets; a started loop always reaches the return.
C2_Bounds ==
  /\ steps <= n_iters
  /\ steps = i
  /\ Returned =>
       /\ is_trained
       /\ Len(samples) <= n_nets
       /\ (burn_in <= n_iters) =>
            Len(samples) <= ((n_iters - burn_in) \div ThinEvery) + 1
       /\ (i = n_iters \/ Len(samples) = n_nets)
C2_Terminates ==
  /\ []C2_Bounds
  /\ [][(steps' = steps + 1) => (i < n_iters /\ Len(samples) < n_nets)]_vars
  /\ [][(pc = "loop" /\ pc' = "idle") =>
          (i = n_iters \/ Len(samples) = n_nets)]_vars
  /\ (pc = "loop") ~> (pc = "idle" /\ is_trained)

C2_Witness ==
  /\ Returned
  /\ n_iters > 0 /\ steps = n_iters /\ Len(samples) < n_nets
  /\ burn_in <= n_iters
  /\ Len(samples) = ((n_iters - burn_in) \div ThinEvery) + 1

\* C3: predict or sample_functions on a model that was never trained signals
\* a "not trained" error and returns nothing.
C3_NotTrainedError ==
  (~is_trained /\ op.name \in {"predict", "sample_functions"}) =>
    result = Raise("NotTrainedError")

\* C4: predict after a train() that collected no sample signals an "empty
\* posterior" error.
C4_EmptyPosteriorError ==
  (is_trained /\ samples = <<>> /\ op.name = "predict") =>
    result = Raise("EmptyPosteriorError")

\* C5: the buffer never holds more than n_nets entries, and once more than
\* n_nets snapshots were appended it holds exactly the last n_nets of them in
\* insertion order.
C5_BoundedFifo ==
  /\ Len(samples) <= n_nets
  /\ (Len(appended) > n_nets) => samples = LastN(appended, n_nets)

C5_Witness ==
  /\ n_nets >= 2
  /\ Len(appended) = n_nets + MaxExtra
  /\ Len(samples) = n_nets

\* C6: on a trained model sample_functions(X_test, n_funcs) returns n_funcs
\* rows, row k evaluated under the k-th oldest buffered sample, when
\* n_funcs <= len(buffer), and raises an out-of-range error otherwise.
C6_SequentialIndexing ==
  (is_trained /\ op.name = "sample_functions") =>
    IF op.n_funcs <= Len(samples)
      THEN /\ result.kind = "return"
           /\ Len(result.rows) = op.n_funcs
           /\ \A k \in 1..op.n_funcs :
                result.rows[k] =
                  Forward(samples[k], op.x, TestStats(op.x),
                          IF normalize_output THEN y_mean ELSE 0)
      ELSE result = Raise("IndexError")

C6_Witness ==
  /\ is_trained /\ op.name = "sample_functions"
  /\ op.n_funcs >= 2 /\ op.n_funcs < Len(samples)
  /\ result.kind = "return"

\* C7: after a train() call the buffer holds only that call's snapshots, the
\* statistics are those of that call's data, and nothing an earlier call left
\* behind shapes it: the batch size is the one a fresh model would use.
C7_NoCarryOver ==
  (n_train > 0) =>
    /\ \A k \in 1..Len(samples) : samples[k].call = n_train
    /\ normalize_input => (x_mean = X /\ x_std = X)
    /\ normalize_output => (y_mean = Y /\ y_std = Y)
    /\ bsize = Min(cfg_bsize, X)

\* C8: in every train() call the loop's batch size is N when the configured
\* bsize exceeds N and the configured bsize otherwise.
C8_BatchSizePerCall ==
  (pc = "loop") => bsize = (IF cfg_bsize > X THEN X ELSE cfg_bsize)

\* C9: on a trained model predict and sample_functions change nothing but the
\* live network's weights (and what the call returns), and the same call
\* repeated returns the same result.
C9_ReadOnly ==
  [][(is_trained /\ op'.name \in {"predict", "sample_functions"}) =>
       /\ UNCHANGED <<samples, stats, is_trained, hyper, bsize, data>>
       /\ (op' = op) => (result' = result)]_vars

C9_Witness ==
  /\ is_trained /\ op.name = "predict"
  /\ Len(samples) >= 2
  /\ result.kind = "return" /\ Len(result.rows) = Len(samples)
  /\ net = samples[Len(samples)]

\* C10: the mini-batch of loop iteration k is rows [start, min(start + bsize, N))
\* with start = (k * bsize) mod N: start is a row, the batch is not empty, has
\* at most bsize rows, ends at the data set's end at the latest, and is the
\* same row range for X and Y.
C10_MiniBatch ==
  (steps > 0) =>
    LET k == i - 1
        start == (k * bsize) % X
    IN /\ bsize \in 1..X
       /\ 0 <= start /\ start < X
       /\ xmb.lo = start
       /\ xmb.hi = Min(start + bsize, X)
       /\ xmb.lo < xmb.hi
       /\ xmb.hi - xmb.lo <= bsize
       /\ xmb.hi <= X
       /\ ymb = xmb

C10_Witness ==
  /\ steps > 0
  /\ xmb.hi = X
  /\ xmb.hi - xmb.lo < bsize
====
